---------------------------- MODULE Spec2Model ----------------------------
(***************************************************************************)
(* A model of the DebianDevelChanges supybot plugin                        *)
(* (src/DebianDevelChanges/plugin.py): the mailbox drain, the per-mail     *)
(* pipeline (duplicate filter and channel router) and the topic            *)
(* aggregator with its debounce timers.                                    *)
(***************************************************************************)
EXTENDS Naturals, Sequences, FiniteSets, TLC

VARIABLES
    channels,           \* irc.state.channels, in iteration order
    registry,           \* per-channel registry values
    last_n_messages,    \* self.last_n_messages
    nextText,           \* the next rendered text no document has carried yet
    last,               \* the latest _process_mail call: input, result, sends
    inbox,              \* ~/inject: entry name -> entry
    processed_maildir,  \* ~/processed-mails: names
    failed_maildir,     \* ~/failed-mails: names
    mail_lock,          \* self.mail_lock: its holder, or Free
    dpc,                \* each _email_callback invocation's position
    listing,            \* each invocation's os.listdir result still to visit
    fate,               \* each invocation's pass: listed regular file -> fate
    srcval,             \* each data source's last value (None before the first)
    topic,              \* irc.state.getTopic(channel)
    queued_topics,      \* self.queued_topics
    events,             \* supybot.schedule's one-shot events: key -> time
    topic_lock,         \* self.topic_lock: its holder, or Free
    tpc,                \* each thread's position
    tcur,               \* each thread's channel (the loop variable, the argument)
    ttodo,              \* each thread's channels still to schedule (line 310)
    tidx,               \* each thread's position in self.data_sources
    irc_queue,          \* TOPIC messages handed to irc.queueMsg, not yet sent
    rec,                \* per channel, the latest recorded pending topic's history
    prev,               \* what the scheduler's latest recompute left, while it stands
    task,               \* the data source task the scheduler is running, if any
    caller              \* who sent the update command being served, if any

mailVars == << channels, registry, last_n_messages, nextText, last, inbox,
               processed_maildir, failed_maildir, mail_lock, dpc, listing,
               fate >>

topicVars == << srcval, topic, queued_topics, events, topic_lock, tpc,
                tcur, ttodo, tidx, irc_queue, rec, prev, task, caller >>

vars == << channels, registry, last_n_messages, nextText, last, inbox,
           processed_maildir, failed_maildir, mail_lock, dpc, listing,
           fate, srcval, topic, queued_topics, events, topic_lock, tpc,
           tcur, ttodo, tidx, irc_queue, rec, prev, task, caller >>

-----------------------------------------------------------------------------
(* Bounds of the model *)

\* rendered texts the documents of the pipeline specification may carry
MaxText == 22

\* rendered texts the documents injected into the inbox may carry
DrainTexts == 2

\* how often one inbox file is counted as handed to _process_mail
MaxHanded == 2

\* the values a data source may report: 1..MaxValue
MaxValue == 2

\* the seconds one step of the clock takes
TickLen == 30

\* the TOPIC messages the transport holds unsent; no timer fires beyond it
MaxQueue == 1

\* how often one recorded pending topic is counted as issued
MaxIssued == 2

-----------------------------------------------------------------------------
(* ProcessingResult, src lines 68-71 *)

\* ACTION is a reserved word of TLA+, hence the prefix
RES_ACTION == "ACTION"
RES_NO_ACTION == "NO_ACTION"
RES_ERROR == "ERROR"

\* the capacity of the recent-text window
WindowCap == 20

-----------------------------------------------------------------------------
(* Documents and the collaborators' answers *)

\* an attribute the message object does not have (hasattr is False)
NoAttr == "<no attribute>"

\* A regular expression is modelled by the set of strings re.search finds a
\* match in; a registry value that is not set is the empty string (falsy).
Unset == [set |-> FALSE, lang |-> {}]

Rx(strings) == [set |-> TRUE, lang |-> strings]

\* re.search(regex, s) is not None
Search(rx, s) == s \in rx.lang

\* get_message(parse_mail(fileobj)): what the parsers make of a document.
\* parse_mail or get_message raises on a "bad" document, get_message returns
\* None on a "none" document, and a "msg" document carries rendered text txt.
BadDoc == [kind |-> "bad", txt |-> 0]
NoneDoc == [kind |-> "none", txt |-> 0]
MsgDoc(t) == [kind |-> "msg", txt |-> t]

\* The message objects the parsers build: msg.package already split on ","
\* and stripped, msg.maintainer's address, msg.distribution.
Shapes ==
    << [package |-> << "libfoo" >>, maintainer |-> NoAttr,
        distribution |-> "unstable"],
       [package |-> << "bar" >>, maintainer |-> "b@example.org",
        distribution |-> NoAttr],
       [package |-> << "ghost", "libfoo" >>, maintainer |-> NoAttr,
        distribution |-> "unstable"],
       [package |-> << "flaky" >>, maintainer |-> NoAttr,
        distribution |-> "bullseye-security"],
       [package |-> << "libfoo", "bar" >>, maintainer |-> "a@debian.org",
        distribution |-> "bullseye-security"] >>

\* the message a document with rendered text t is parsed into
MsgOf(t) == Shapes[((t - 1) % Len(Shapes)) + 1]

\* self.apt_archive.get_maintainer(package): an info dict, None for a source
\* package the archive does not know (the caller at lines 383-395 tests for
\* it), or DataSource.DataError raised.
GetMaintainer(package) ==
    CASE package = "libfoo" -> [kind |-> "info", email |-> "a@debian.org"]
      [] package = "bar"    -> [kind |-> "info", email |-> "b@example.org"]
      [] package = "flaky"  -> [kind |-> "DataError", email |-> ""]
      [] OTHER              -> [kind |-> "None", email |-> ""]

-----------------------------------------------------------------------------
(* _process_mail, src lines 196-275 *)

RECURSIVE LookupFrom(_, _)
\* lines 217-222: get_maintainer for each package; a DataError is logged and
\* that package is left out, any other answer (None included) is appended
LookupFrom(packages, i) ==
    IF i > Len(packages) THEN << >>
    ELSE LET info == GetMaintainer(packages[i])
         IN  IF info.kind = "DataError"
             THEN LookupFrom(packages, i + 1)
             ELSE << info >> \o LookupFrom(packages, i + 1)

\* lines 213-222: the message's own maintainer (split_address), else one
\* archive lookup per package
MaintainerInfo(msg) ==
    IF msg.maintainer # NoAttr
    THEN << [kind |-> "info", email |-> msg.maintainer] >>
    ELSE LookupFrom(msg.package, 1)

\* line 226: self.registryValue("package_regex", channel) or "a^"; "a^" is a
\* pattern no string matches
PackageRegexDefaultAll(rx) == IF rx.set THEN rx ELSE Rx({"libfoo", "bar", "ghost", "flaky"})

PackageRegex(rx) == IF rx.set THEN rx ELSE Rx({})

\* lines 227-231: some package matches the channel's package regex
PackageMatch(rx, packages) ==
    \E k \in 1..Len(packages) : Search(PackageRegex(rx), packages[k])

RECURSIVE MaintainerSearch(_, _, _)
\* lines 240-243: the loop over maintainer_info, which stops at the first
\* match; mi["email"] raises TypeError on an entry that is None
MaintainerSearch(rx, info, i) ==
    IF i > Len(info) THEN "nomatch"
    ELSE IF info[i].kind = "None" THEN "raise"
    ELSE IF Search(rx, info[i].email) THEN "match"
    ELSE MaintainerSearch(rx, info, i + 1)

\* lines 233-243: searched only if the channel has a maintainer regex
MaintainerMatch(rx, info) ==
    IF rx.set THEN MaintainerSearch(rx, info, 1) ELSE "nomatch"

\* lines 262-268: PRIVMSG if send_privmsg is set for the channel, else NOTICE
IrcMsg(channel, txt) ==
    [channel |-> channel,
     command |-> IF registry[channel].send_privmsg THEN "PRIVMSG" ELSE "NOTICE",
     text |-> txt]

\* the mutant: the distribution filter lets every message through
DistributionPassAlways(rx, msg) == TRUE

\* lines 248-260: a channel with a distribution regex takes only messages that
\* have a distribution, and one that matches
DistributionPass(rx, msg) ==
    IF rx.set
    THEN msg.distribution # NoAttr /\ Search(rx, msg.distribution)
    ELSE TRUE

RECURSIVE RouteFrom(_, _, _, _, _)
\* lines 224-273: the loop over the joined channels, from the i-th on. An
\* exception raised for one channel leaves the loop: the except clause around
\* the whole body returns ERROR.
RouteFrom(i, msg, txt, info, sent) ==
    IF i > Len(channels) THEN [res |-> RES_ACTION, sent |-> sent]
    ELSE LET channel == channels[i]
             cfg == registry[channel]
             package_match == PackageMatch(cfg.package_regex, msg.package)
             maintainer_match == MaintainerMatch(cfg.maintainer_regex, info)
         IN  IF maintainer_match = "raise"
             THEN [res |-> RES_ERROR, sent |-> sent]
             ELSE IF ~package_match /\ maintainer_match # "match"
             THEN RouteFrom(i + 1, msg, txt, info, sent)
             ELSE IF ~DistributionPass(cfg.distribution_regex, msg)
             THEN RouteFrom(i + 1, msg, txt, info, sent)
             ELSE RouteFrom(i + 1, msg, txt, info,
                            Append(sent, IrcMsg(channel, txt)))

\* line 209: self.last_n_messages[:20]
Truncate(window) ==
    IF Len(window) > WindowCap THEN SubSeq(window, 1, WindowCap) ELSE window

\* txt in self.last_n_messages
InWindow(txt, window) == \E k \in 1..Len(window) : window[k] = txt

\* the mutant: the duplicate test is skipped
IsDuplicateNever(txt, window) == FALSE

\* line 206
IsDuplicate(txt, window) == InWindow(txt, window)

\* _process_mail(fileobj) with self.last_n_messages = window: the result, the
\* window afterwards and the messages handed to irc.queueMsg, in order
ProcessMail(doc, window) ==
    IF doc.kind = "bad"
    THEN [res |-> RES_ERROR, window |-> window, sent |-> << >>]
    ELSE IF doc.kind = "none"
    THEN [res |-> RES_NO_ACTION, window |-> window, sent |-> << >>]
    ELSE IF IsDuplicate(doc.txt, window)
    THEN [res |-> RES_NO_ACTION, window |-> window, sent |-> << >>]
    ELSE LET msg == MsgOf(doc.txt)
             routed == RouteFrom(1, msg, doc.txt, MaintainerInfo(msg), << >>)
         IN  [res |-> routed.res,
              window |-> Truncate(<< doc.txt >> \o window),
              sent |-> routed.sent]

\* what the model keeps of a _process_mail call
CallRecord(doc, window, out) ==
    [doc |-> doc, pre |-> window, res |-> out.res, sent |-> out.sent]

NoCall == [doc |-> NoneDoc, pre |-> << >>, res |-> "", sent |-> << >>]

-----------------------------------------------------------------------------
(* Channel configurations *)

Config(p, m, d, privmsg) ==
    [package_regex |-> p, maintainer_regex |-> m, distribution_regex |-> d,
     send_privmsg |-> privmsg]

\* the registry values a channel may have
Configs ==
    { Config(Unset, Unset, Unset, FALSE),
      Config(Rx({"libfoo"}), Unset, Unset, FALSE),
      Config(Unset, Rx({"a@debian.org"}), Unset, TRUE),
      Config(Rx({"libfoo", "bar"}), Unset, Rx({"unstable"}), FALSE),
      Config(Unset, Unset, Rx({"unstable"}), TRUE),
      Config(Rx({"bar"}), Rx({"b@example.org"}), Unset, TRUE) }

ChannelNames == << "#a", "#b", "#c" >>

Threads == {"t1", "t2"}

Free == "<free>"

EmptyMap == [x \in {} |-> 0]

\* f with x mapped to v
Put(f, x, v) == [y \in DOMAIN f \cup {x} |-> IF y = x THEN v ELSE f[y]]

\* f without x
Drop(f, x) == [y \in DOMAIN f \ {x} |-> f[y]]

\* "no data": what a data source's getter returns before its first update
NoData == 0

\* a recorded pending topic's history: none recorded yet
NoRec == [set |-> FALSE, needs |-> FALSE, at |-> 0, quick |-> FALSE, issued |-> 0,
          superseded_issued |-> FALSE, was |-> EmptyMap, topic |-> EmptyMap,
          carried |-> EmptyMap]

\* no recompute of the scheduler's stands: none has run, or something has
\* changed since
NoPrev ==
    [ok |-> FALSE, fresh |-> FALSE, at |-> 0, queued |-> EmptyMap,
     events |-> EmptyMap]

\* the scheduler runs no data source task
NoTask == [outcome |-> "none", recomputes |-> 0]

\* no update command is being served
NoCaller == "<nobody>"

\* the users who send the update command: one with the owner capability, one
\* without
Callers == {"owner", "guest"}

TopicThreads == {"sched", "user"}

\* self.data_sources (lines 101-109), those that feed a section of the topic
data_sources == << "testing_rc_bugs", "new_queue" >>

\* what update() may fetch for a source; new_queue, whose section no topic of
\* the runs holds a token for, always fetches the same
Values(source) == IF source = "testing_rc_bugs" THEN 1..MaxValue ELSE {1}

\* the topic side after __init__ (lines 77-128), the channels' topics given
InitTopicSide(topics) ==
    /\ srcval = [src \in {data_sources[i] : i \in 1..Len(data_sources)} |-> NoData]
    /\ topic = topics
    /\ queued_topics = EmptyMap
    /\ events = EmptyMap
    /\ topic_lock = Free
    /\ tpc = [t \in TopicThreads |-> "idle"]
    /\ tcur = [t \in TopicThreads |-> ""]
    /\ ttodo = [t \in TopicThreads |-> {}]
    /\ tidx = [t \in TopicThreads |-> 1]
    /\ irc_queue = << >>
    /\ rec = [c \in DOMAIN topics |-> NoRec]
    /\ prev = NoPrev
    /\ task = NoTask
    /\ caller = NoCaller

\* the mail side after __init__ (lines 77-144), but for the channels and their
\* registry values
InitMail ==
    /\ last_n_messages = << >>
    /\ nextText = 1
    /\ last = NoCall
    /\ inbox = EmptyMap
    /\ processed_maildir = {}
    /\ failed_maildir = {}
    /\ mail_lock = Free
    /\ dpc = [t \in Threads |-> "idle"]
    /\ listing = [t \in Threads |-> << >>]
    /\ fate = [t \in Threads |-> EmptyMap]

-----------------------------------------------------------------------------
(* The pipeline alone: _process_mail applied to one document after another *)

InitPipeline ==
    /\ InitMail
    /\ channels = ChannelNames
    /\ InitTopicSide([c \in {ChannelNames[i] : i \in 1..Len(ChannelNames)} |-> EmptyMap])
    /\ registry \in [{ChannelNames[i] : i \in 1..Len(ChannelNames)} -> Configs]

\* the documents offered: an unparsable one, one with no actionable content,
\* one with a text never seen, or one repeating the first or the latest text
PipelineDocs ==
    {BadDoc, NoneDoc}
      \cup {MsgDoc(t) : t \in {nextText} \cap 1..MaxText}
      \cup {MsgDoc(t) : t \in {1, nextText - 1} \cap 1..(nextText - 1)}

\* one call of _process_mail
Process(doc) ==
    /\ LET out == ProcessMail(doc, last_n_messages)
       IN  /\ last_n_messages' = out.window
           /\ last' = CallRecord(doc, last_n_messages, out)
    /\ nextText' = IF doc.kind = "msg" /\ doc.txt = nextText
                   THEN nextText + 1 ELSE nextText
    /\ UNCHANGED << channels, registry, inbox, processed_maildir,
                    failed_maildir, mail_lock, dpc, listing, fate >>
    /\ UNCHANGED topicVars

NextPipeline == \E doc \in PipelineDocs : Process(doc)

SpecPipeline == InitPipeline /\ [][NextPipeline]_vars

-----------------------------------------------------------------------------
(* The mailbox drain: _email_callback, src lines 165-194 *)

FileNames == {"m1", "m2"}

DirNames == {"tmp"}

\* the channels of the drain's runs
DrainRegistry ==
    [c \in {"#a", "#b", "#c"} |->
        CASE c = "#a" -> Config(Unset, Rx({"a@debian.org"}), Unset, TRUE)
          [] c = "#b" -> Config(Rx({"libfoo"}), Unset, Unset, FALSE)
          [] OTHER    -> Config(Rx({"libfoo", "bar"}), Unset, Rx({"unstable"}), FALSE)]

InitDrain ==
    /\ InitMail
    /\ channels = ChannelNames
    /\ registry = DrainRegistry
    /\ InitTopicSide([c \in {ChannelNames[i] : i \in 1..Len(ChannelNames)} |-> EmptyMap])

DrainDocs ==
    {BadDoc, NoneDoc}
      \cup {MsgDoc(t) : t \in {nextText} \cap 1..DrainTexts}
      \cup {MsgDoc(t) : t \in {1, nextText - 1} \cap 1..(nextText - 1)}

\* the permutations of a finite set, as sequences
Orders(S) ==
    { o \in [1..Cardinality(S) -> S] : \A i, j \in DOMAIN o : o[i] = o[j] => i = j }

\* os.path.isfile(mail)
IsFile(name) == name \in DOMAIN inbox /\ inbox[name].kind = "file"

\* the external injection mechanism drops a document into the inbox
Inject(name, doc) ==
    /\ name \notin DOMAIN inbox
    /\ inbox' = Put(inbox, name, [kind |-> "file", doc |-> doc, handed |-> 0])
    /\ nextText' = IF doc.kind = "msg" /\ doc.txt = nextText
                   THEN nextText + 1 ELSE nextText
    /\ UNCHANGED << channels, registry, last_n_messages, last,
                    processed_maildir, failed_maildir, mail_lock, dpc,
                    listing, fate >>
    /\ UNCHANGED topicVars

\* an entry of the inbox that is not a regular file
MakeDir(name) ==
    /\ name \notin DOMAIN inbox
    /\ inbox' = Put(inbox, name, [kind |-> "dir", doc |-> NoneDoc, handed |-> 0])
    /\ UNCHANGED << channels, registry, last_n_messages, nextText, last,
                    processed_maildir, failed_maildir, mail_lock, dpc,
                    listing, fate >>
    /\ UNCHANGED topicVars

\* lines 167-168: the lock is held, the invocation returns
InvokeBusy(t) ==
    /\ dpc[t] = "idle"
    /\ mail_lock # Free
    /\ UNCHANGED vars

\* lines 167-170: the lock is seen free, the invocation goes on to the with
InvokeFree(t) ==
    /\ dpc[t] = "idle"
    /\ mail_lock = Free
    /\ dpc' = [dpc EXCEPT ![t] = "with"]
    /\ UNCHANGED << channels, registry, last_n_messages, nextText, last, inbox,
                    processed_maildir, failed_maildir, mail_lock, listing,
                    fate >>
    /\ UNCHANGED topicVars

\* line 170: the lock was taken in between; acquire() blocks
Block(t) ==
    /\ dpc[t] = "with"
    /\ mail_lock # Free
    /\ dpc' = [dpc EXCEPT ![t] = "blocked"]
    /\ UNCHANGED << channels, registry, last_n_messages, nextText, last, inbox,
                    processed_maildir, failed_maildir, mail_lock, listing,
                    fate >>
    /\ UNCHANGED topicVars

\* lines 170-171: the lock is acquired and the inbox listed, in the order the
\* filesystem gives
Enter(t) ==
    /\ dpc[t] \in {"with", "blocked"}
    /\ mail_lock = Free
    /\ mail_lock' = t
    /\ \E order \in Orders(DOMAIN inbox) : listing' = [listing EXCEPT ![t] = order]
    /\ fate' = [fate EXCEPT ![t] = [f \in {n \in DOMAIN inbox : IsFile(n)} |-> "pending"]]
    /\ dpc' = [dpc EXCEPT ![t] = "loop"]
    /\ UNCHANGED << channels, registry, last_n_messages, nextText, last, inbox,
                    processed_maildir, failed_maildir >>
    /\ UNCHANGED topicVars

\* lines 173-174: an entry that is not a regular file is passed over
VisitOther(t) ==
    /\ dpc[t] = "loop"
    /\ listing[t] # << >>
    /\ ~IsFile(Head(listing[t]))
    /\ listing' = [listing EXCEPT ![t] = Tail(listing[t])]
    /\ UNCHANGED << channels, registry, last_n_messages, nextText, last, inbox,
                    processed_maildir, failed_maildir, mail_lock, dpc, fate >>
    /\ UNCHANGED topicVars

\* lines 179-194: where a result sends the file; NO_ACTION unlinks it
Archive(res) ==
    CASE res = RES_ACTION    -> "processed"
      [] res = RES_NO_ACTION -> "deleted"
      [] OTHER               -> "failed"

\* shutil.move(mail, directory) raises shutil.Error when the directory already
\* holds an entry of that name
MoveRaises(name, where) ==
    \/ where = "processed" /\ name \in processed_maildir
    \/ where = "failed" /\ name \in failed_maildir

\* lines 176-194: one regular file is handed to _process_mail and relocated.
\* Nothing catches what shutil.move raises: the exception leaves the loop and
\* the with statement, which releases the lock.
VisitFile(t) ==
    /\ dpc[t] = "loop"
    /\ listing[t] # << >>
    /\ IsFile(Head(listing[t]))
    /\ LET mail == Head(listing[t])
           out == ProcessMail(inbox[mail].doc, last_n_messages)
           where == Archive(out.res)
       IN  /\ last_n_messages' = out.window
           /\ IF MoveRaises(mail, where)
              THEN /\ inbox' = [inbox EXCEPT ![mail].handed =
                                  IF @ < MaxHanded THEN @ + 1 ELSE @]
                   /\ mail_lock' = Free
                   /\ dpc' = [dpc EXCEPT ![t] = "raised"]
                   /\ listing' = [listing EXCEPT ![t] = << >>]
                   /\ UNCHANGED << processed_maildir, failed_maildir, fate >>
              ELSE /\ inbox' = Drop(inbox, mail)
                   /\ processed_maildir' = IF where = "processed"
                                           THEN processed_maildir \cup {mail}
                                           ELSE processed_maildir
                   /\ failed_maildir' = IF where = "failed"
                                        THEN failed_maildir \cup {mail}
                                        ELSE failed_maildir
                   /\ fate' = [fate EXCEPT ![t][mail] = where]
                   /\ listing' = [listing EXCEPT ![t] = Tail(listing[t])]
                   /\ UNCHANGED << mail_lock, dpc >>
    /\ UNCHANGED << channels, registry, nextText, last >>
    /\ UNCHANGED topicVars

\* the listing is exhausted: the with statement releases the lock
Leave(t) ==
    /\ dpc[t] = "loop"
    /\ listing[t] = << >>
    /\ mail_lock' = Free
    /\ dpc' = [dpc EXCEPT ![t] = "idle"]
    /\ fate' = [fate EXCEPT ![t] = EmptyMap]
    /\ UNCHANGED << channels, registry, last_n_messages, nextText, last, inbox,
                    processed_maildir, failed_maildir, listing >>
    /\ UNCHANGED topicVars

\* the exception reaches the caller of _email_callback
Unwind(t) ==
    /\ dpc[t] = "raised"
    /\ dpc' = [dpc EXCEPT ![t] = "idle"]
    /\ fate' = [fate EXCEPT ![t] = EmptyMap]
    /\ UNCHANGED << channels, registry, last_n_messages, nextText, last, inbox,
                    processed_maildir, failed_maildir, mail_lock, listing >>
    /\ UNCHANGED topicVars

NextDrain ==
    \/ \E name \in FileNames, doc \in DrainDocs : Inject(name, doc)
    \/ \E name \in DirNames : MakeDir(name)
    \/ \E t \in Threads : InvokeBusy(t)
    \/ \E t \in Threads : InvokeFree(t)
    \/ \E t \in Threads : Block(t)
    \/ \E t \in Threads : Enter(t)
    \/ \E t \in Threads : VisitOther(t)
    \/ \E t \in Threads : VisitFile(t)
    \/ \E t \in Threads : Leave(t)
    \/ \E t \in Threads : Unwind(t)

SpecDrain == InitDrain /\ [][NextDrain]_vars

-----------------------------------------------------------------------------
(* The topic aggregator: _topic_callback and _update_topic, src lines 277-326 *)

\* time.time() (line 317): the present, from which every time stamp is counted
now == 0

\* the delay of the apply event, line 317
TopicDelay == 60

\* lines 278-285: the getters and the label each one feeds
sections ==
    << [source |-> "testing_rc_bugs", prefix |-> "RC bug count"],
       [source |-> "new_queue", prefix |-> "NEW queue"] >>

\* the joined channels of the topic runs and their topics at the start: a
\* topic is the tokens "label: value" it holds, label -> value
TopicChannels == << "#x", "#y" >>

StartTopics ==
    [c \in {"#x", "#y"} |->
        IF c = "#x" THEN [l \in {"RC bug count"} |-> 0] ELSE EmptyMap]

\* rewrite_topic(topic, prefix, value): the value of the token with that label
\* is replaced; a topic without such a token is left as it is
rewrite_topic(t, prefix, value) ==
    IF prefix \in DOMAIN t THEN [t EXCEPT ![prefix] = value] ELSE t

RECURSIVE RewriteFrom(_, _)
\* lines 289-299: each section whose getter has data rewrites the topic
RewriteFrom(t, i) ==
    IF i > Len(sections) THEN t
    ELSE LET new_value == srcval[sections[i].source]
         IN  RewriteFrom(IF new_value # NoData
                         THEN rewrite_topic(t, sections[i].prefix, new_value)
                         ELSE t,
                         i + 1)

\* line 296-299: the topic the channel should have
NewTopic(c) == RewriteFrom(topic[c], 1)

\* line 301: the channels whose topic differs from the rewritten one
ChangedChannels == {c \in DOMAIN topic : topic[c] # NewTopic(c)}

\* the mutant: a pending topic already recorded is kept
RecordIfAbsent(q, c, new_topic) == IF c \in DOMAIN q THEN q ELSE Put(q, c, new_topic)

\* line 302: self.queued_topics[channel] = new_topic
Record(q, c, new_topic) == Put(q, c, new_topic)

RECURSIVE RecordAll(_, _)
\* lines 295-302 over the channels in S
RecordAll(q, S) ==
    IF S = {} THEN q
    ELSE LET c == CHOOSE x \in S : TRUE
         IN  RecordAll(Record(q, c, NewTopic(c)), S \ {c})

\* the history of channel c's pending topic, once a recompute has recorded
\* one; needs tells whether the latest recompute found the channel's topic in
\* need of a change (line 301)
Recorded(c) ==
    [set |-> TRUE, needs |-> TRUE, at |-> now,
     quick |-> rec[c].set /\ now - rec[c].at < TopicDelay,
     issued |-> 0,
     superseded_issued |-> \/ rec[c].superseded_issued
                           \/ /\ rec[c].set
                              /\ now - rec[c].at < TopicDelay
                              /\ rec[c].issued > 0,
     was |-> rec[c].topic, topic |-> NewTopic(c), carried |-> EmptyMap]

\* source.update(): the source fetches a value
SourceUpdated(source, v) == srcval' = [srcval EXCEPT ![source] = v]

\* the mutant: no recompute after an update that raised
AfterUpdateSkipOnError(outcome) == IF outcome = "raised" THEN "idle" ELSE "tc_lock"

\* lines 114-118: whatever source.update() did, the task goes on to
\* self._topic_callback()
AfterUpdate(outcome) == "tc_lock"

\* lines 113-118: the scheduled task of a data source; update() has succeeded
WrapperUpdated(source, v) ==
    /\ tpc["sched"] = "idle"
    /\ SourceUpdated(source, v)
    /\ tpc' = [tpc EXCEPT !["sched"] = AfterUpdate("updated")]
    /\ UNCHANGED << topic, queued_topics, events, topic_lock, tcur, ttodo,
                    tidx, irc_queue, rec >>
    /\ prev' = IF v = srcval[source] THEN prev ELSE NoPrev
    /\ task' = [outcome |-> "updated", recomputes |-> 0]
    /\ UNCHANGED caller
    /\ UNCHANGED mailVars

\* lines 113-118: update() has raised; the exception is logged
WrapperFailed(source) ==
    /\ tpc["sched"] = "idle"
    /\ tpc' = [tpc EXCEPT !["sched"] = AfterUpdate("raised")]
    /\ UNCHANGED << srcval, topic, queued_topics, events, topic_lock, tcur,
                    ttodo, tidx, irc_queue, rec >>
    /\ UNCHANGED prev
    /\ task' = [outcome |-> "raised", recomputes |-> 0]
    /\ UNCHANGED caller
    /\ UNCHANGED mailVars

\* the mutant: the capability is not looked at
AuthorisedAnyone(who) == TRUE

\* line 343: ircdb.checkCapability(msg.prefix, "owner")
Authorised(who) == who = "owner"

\* lines 343-344: the caller lacks the owner capability and is told so
UpdateRejected(who) ==
    /\ tpc["user"] = "idle"
    /\ ~Authorised(who)
    /\ tpc' = [tpc EXCEPT !["user"] = "rejected"]
    /\ caller' = who
    /\ UNCHANGED << srcval, topic, queued_topics, events, topic_lock, tcur,
                    ttodo, tidx, irc_queue, rec >>
    /\ UNCHANGED prev
    /\ UNCHANGED task
    /\ UNCHANGED mailVars

\* line 345: return
UpdateReturn ==
    /\ tpc["user"] = "rejected"
    /\ tpc' = [tpc EXCEPT !["user"] = "idle"]
    /\ caller' = NoCaller
    /\ UNCHANGED << srcval, topic, queued_topics, events, topic_lock, tcur,
                    ttodo, tidx, irc_queue, rec >>
    /\ UNCHANGED prev
    /\ UNCHANGED task
    /\ UNCHANGED mailVars

\* lines 343-347: the caller has the owner capability
UpdateStart(who) ==
    /\ tpc["user"] = "idle"
    /\ Authorised(who)
    /\ tpc' = [tpc EXCEPT !["user"] = "update"]
    /\ tidx' = [tidx EXCEPT !["user"] = 1]
    /\ caller' = who
    /\ UNCHANGED << srcval, topic, queued_topics, events, topic_lock, tcur,
                    ttodo, irc_queue, rec >>
    /\ UNCHANGED prev
    /\ UNCHANGED task
    /\ UNCHANGED mailVars

\* lines 347-349: the next source is updated
UpdateSource(v) ==
    /\ tpc["user"] = "update"
    /\ tidx["user"] <= Len(data_sources)
    /\ SourceUpdated(data_sources[tidx["user"]], v)
    /\ tidx' = [tidx EXCEPT !["user"] = @ + 1]
    /\ UNCHANGED << topic, queued_topics, events, topic_lock, tpc, tcur,
                    ttodo, irc_queue, rec >>
    /\ prev' = IF v = srcval[data_sources[tidx["user"]]] THEN prev ELSE NoPrev
    /\ UNCHANGED task
    /\ UNCHANGED caller
    /\ UNCHANGED mailVars

\* line 348: update() raises; nothing in update catches it
UpdateSourceRaises ==
    /\ tpc["user"] = "update"
    /\ tidx["user"] <= Len(data_sources)
    /\ tpc' = [tpc EXCEPT !["user"] = "idle"]
    /\ tidx' = [tidx EXCEPT !["user"] = 1]
    /\ UNCHANGED << srcval, topic, queued_topics, events, topic_lock, tcur,
                    ttodo, irc_queue, rec >>
    /\ UNCHANGED prev
    /\ UNCHANGED task
    /\ caller' = NoCaller
    /\ UNCHANGED mailVars

\* line 350: every source is updated, the recompute follows
UpdateRecompute ==
    /\ tpc["user"] = "update"
    /\ tidx["user"] > Len(data_sources)
    /\ tpc' = [tpc EXCEPT !["user"] = "tc_lock"]
    /\ tidx' = [tidx EXCEPT !["user"] = 1]
    /\ UNCHANGED << srcval, topic, queued_topics, events, topic_lock, tcur,
                    ttodo, irc_queue, rec >>
    /\ UNCHANGED prev
    /\ UNCHANGED task
    /\ UNCHANGED caller
    /\ UNCHANGED mailVars

\* the mutant: the lock is taken whoever holds it
CanAcquireAlways(lock) == TRUE

\* threading.Lock.acquire() returns once nobody holds the lock
CanAcquire(lock) == lock = Free

\* line 288: with self.topic_lock
TcAcquire(t) ==
    /\ tpc[t] = "tc_lock"
    /\ CanAcquire(topic_lock)
    /\ topic_lock' = t
    /\ tpc' = [tpc EXCEPT ![t] = "tc_body"]
    /\ UNCHANGED << srcval, topic, queued_topics, events, tcur, ttodo,
                    tidx, irc_queue, rec >>
    /\ UNCHANGED prev
    /\ UNCHANGED task
    /\ UNCHANGED caller
    /\ UNCHANGED mailVars

\* lines 289-308: the body of the with statement, and the lock's release
TcBody(t) ==
    /\ tpc[t] = "tc_body"
    /\ topic_lock = t
    /\ queued_topics' = RecordAll(queued_topics, ChangedChannels)
    /\ ttodo' = [ttodo EXCEPT ![t] = ChangedChannels]
    /\ rec' = [c \in DOMAIN rec |->
                  IF c \in ChangedChannels THEN Recorded(c)
                  ELSE [rec[c] EXCEPT !.needs = FALSE]]
    /\ topic_lock' = Free
    /\ tpc' = [tpc EXCEPT ![t] = "tc_next"]
    /\ UNCHANGED << srcval, topic, events, tcur, tidx, irc_queue >>
    /\ prev' = IF t = "sched" THEN [prev EXCEPT !.fresh = TRUE] ELSE NoPrev
    /\ task' = IF t = "sched" /\ task.recomputes < 2
               THEN [task EXCEPT !.recomputes = @ + 1] ELSE task
    /\ UNCHANGED caller
    /\ UNCHANGED mailVars

\* lines 54-58: schedule.removeEvent(event), a KeyError passed over
schedule_remove_event(ev, name) == Drop(ev, name)

\* lines 310-312: the next channel of the loop; its event is removed
TcRemove(t, c) ==
    /\ tpc[t] = "tc_next"
    /\ c \in ttodo[t]
    /\ events' = schedule_remove_event(events, c)
    /\ tcur' = [tcur EXCEPT ![t] = c]
    /\ ttodo' = [ttodo EXCEPT ![t] = @ \ {c}]
    /\ tpc' = [tpc EXCEPT ![t] = "tc_add"]
    /\ UNCHANGED << srcval, topic, queued_topics, topic_lock, tidx,
                    irc_queue, rec >>
    /\ prev' = IF t = "sched" THEN prev ELSE NoPrev
    /\ UNCHANGED task
    /\ UNCHANGED caller
    /\ UNCHANGED mailVars

\* the mutant: the delay is left out
EventTimeNoDelay(t) == t

\* line 317: time.time() + 60
EventTime(t) == t + TopicDelay

\* line 317: schedule.addEvent(update_topic, time.time() + 60, event_name)
TcAdd(t) ==
    /\ tpc[t] = "tc_add"
    /\ tcur[t] \notin DOMAIN events
    /\ events' = Put(events, tcur[t], EventTime(now))
    /\ tpc' = [tpc EXCEPT ![t] = "tc_next"]
    /\ UNCHANGED << srcval, topic, queued_topics, topic_lock, tcur, ttodo,
                    tidx, irc_queue, rec >>
    /\ prev' = IF t = "sched" THEN prev ELSE NoPrev
    /\ UNCHANGED task
    /\ UNCHANGED caller
    /\ UNCHANGED mailVars

\* line 317: an event of that name is scheduled; addEvent's assertion fails
\* and the exception leaves _topic_callback
TcAddRaises(t) ==
    /\ tpc[t] = "tc_add"
    /\ tcur[t] \in DOMAIN events
    /\ tpc' = [tpc EXCEPT ![t] = "idle"]
    /\ ttodo' = [ttodo EXCEPT ![t] = {}]
    /\ UNCHANGED << srcval, topic, queued_topics, events, topic_lock, tcur,
                    tidx, irc_queue, rec >>
    /\ prev' = NoPrev
    /\ task' = IF t = "sched" THEN NoTask ELSE task
    /\ caller' = IF t = "user" THEN NoCaller ELSE caller
    /\ UNCHANGED mailVars

\* line 310: the loop is over, _topic_callback returns
TcDone(t) ==
    /\ tpc[t] = "tc_next"
    /\ ttodo[t] = {}
    /\ tpc' = [tpc EXCEPT ![t] = "idle"]
    /\ UNCHANGED << srcval, topic, queued_topics, events, topic_lock, tcur,
                    ttodo, tidx, irc_queue, rec >>
    /\ prev' = IF t # "sched" THEN prev
               ELSE IF prev.fresh
                    THEN [ok |-> TRUE, fresh |-> FALSE, at |-> now,
                          queued |-> queued_topics, events |-> events]
                    ELSE NoPrev
    /\ task' = IF t = "sched" THEN NoTask ELSE task
    /\ caller' = IF t = "user" THEN NoCaller ELSE caller
    /\ UNCHANGED mailVars

\* the scheduler runs a due event: the event leaves the schedule and
\* update_topic (lines 314-315) is called
Fire(c) ==
    /\ tpc["sched"] = "idle"
    /\ c \in DOMAIN events
    /\ events[c] <= now
    /\ Len(irc_queue) < MaxQueue
    /\ events' = Drop(events, c)
    /\ tcur' = [tcur EXCEPT !["sched"] = c]
    /\ tpc' = [tpc EXCEPT !["sched"] = "ap_lock"]
    /\ UNCHANGED << srcval, topic, queued_topics, topic_lock, ttodo, tidx,
                    irc_queue, rec >>
    /\ prev' = NoPrev
    /\ UNCHANGED task
    /\ UNCHANGED caller
    /\ UNCHANGED mailVars

\* line 320: with self.topic_lock
ApAcquire(t) ==
    /\ tpc[t] = "ap_lock"
    /\ CanAcquire(topic_lock)
    /\ topic_lock' = t
    /\ tpc' = [tpc EXCEPT ![t] = "ap_body"]
    /\ UNCHANGED << srcval, topic, queued_topics, events, tcur, ttodo,
                    tidx, irc_queue, rec >>
    /\ UNCHANGED prev
    /\ UNCHANGED task
    /\ UNCHANGED caller
    /\ UNCHANGED mailVars

\* lines 322-324: the channel has a pending topic; the TOPIC message is queued
ApIssue(t) ==
    /\ tpc[t] = "ap_body"
    /\ topic_lock = t
    /\ tcur[t] \in DOMAIN queued_topics
    /\ irc_queue' = Append(irc_queue, [channel |-> tcur[t],
                                       topic |-> queued_topics[tcur[t]]])
    /\ rec' = [rec EXCEPT ![tcur[t]].issued = IF @ < MaxIssued THEN @ + 1 ELSE @,
                          ![tcur[t]].carried = queued_topics[tcur[t]]]
    /\ topic_lock' = Free
    /\ tpc' = [tpc EXCEPT ![t] = "idle"]
    /\ UNCHANGED << srcval, topic, queued_topics, events, tcur, ttodo,
                    tidx >>
    /\ UNCHANGED prev
    /\ UNCHANGED task
    /\ UNCHANGED caller
    /\ UNCHANGED mailVars

\* lines 325-326: no pending topic for the channel, KeyError passed over.
\* No code deletes an entry of queued_topics and a timer is only registered
\* after the entry is written, so no behaviour takes this step; it is not a
\* disjunct of any next-state relation.
ApNothing(t) ==
    /\ tpc[t] = "ap_body"
    /\ topic_lock = t
    /\ tcur[t] \notin DOMAIN queued_topics
    /\ topic_lock' = Free
    /\ tpc' = [tpc EXCEPT ![t] = "idle"]
    /\ UNCHANGED << srcval, topic, queued_topics, events, tcur, ttodo,
                    tidx, irc_queue, rec >>
    /\ UNCHANGED prev
    /\ UNCHANGED task
    /\ UNCHANGED caller
    /\ UNCHANGED mailVars

\* the transport sends the oldest queued TOPIC message; the channel's topic,
\* as irc.state reports it, becomes the new one
SendTopic ==
    /\ irc_queue # << >>
    /\ topic' = [topic EXCEPT ![Head(irc_queue).channel] = Head(irc_queue).topic]
    /\ irc_queue' = Tail(irc_queue)
    /\ UNCHANGED << srcval, queued_topics, events, topic_lock, tpc, tcur,
                    ttodo, tidx, rec >>
    /\ prev' = NoPrev
    /\ UNCHANGED task
    /\ UNCHANGED caller
    /\ UNCHANGED mailVars

\* a time stamp moved d into the past, no further than floor
Aged(stamp, d, floor) == IF stamp - d < floor THEN floor ELSE stamp - d

\* TickLen seconds pass. Every time stamp is kept as an offset from the
\* present: the firing time of an event that is due stays at now, and the time
\* of a recording older than the delay stays at now - TopicDelay.
Tick ==
    /\ events' = [c \in DOMAIN events |-> Aged(events[c], TickLen, now)]
    /\ rec' = [c \in DOMAIN rec |->
                  IF rec[c].set
                  THEN [rec[c] EXCEPT !.at = Aged(@, TickLen, now - TopicDelay)]
                  ELSE rec[c]]
    /\ prev' = IF prev.ok
               THEN [prev EXCEPT
                       !.at = Aged(@, TickLen, now - TopicDelay),
                       !.events = [c \in DOMAIN @ |-> Aged(@[c], TickLen, now)]]
               ELSE prev
    /\ UNCHANGED << srcval, topic, queued_topics, topic_lock, tpc, tcur,
                    ttodo, tidx, irc_queue >>
    /\ UNCHANGED task
    /\ UNCHANGED caller
    /\ UNCHANGED mailVars

InitTopic ==
    /\ InitMail
    /\ channels = TopicChannels
    /\ registry = [c \in DOMAIN StartTopics |-> Config(Unset, Unset, Unset, FALSE)]
    /\ InitTopicSide(StartTopics)

\* what the scheduler's thread does
NextSched ==
    \/ \E i \in 1..Len(data_sources) :
          \E v \in Values(data_sources[i]) : WrapperUpdated(data_sources[i], v)
    \/ \E i \in 1..Len(data_sources) : WrapperFailed(data_sources[i])
    \/ TcAcquire("sched")
    \/ TcBody("sched")
    \/ \E c \in DOMAIN topic : TcRemove("sched", c)
    \/ TcAdd("sched")
    \/ TcDone("sched")
    \/ \E c \in DOMAIN topic : Fire(c)
    \/ ApAcquire("sched")
    \/ ApIssue("sched")
    \/ SendTopic
    \/ Tick

\* the runs in which only the scheduler's thread calls into the plugin
SpecSched == InitTopic /\ [][NextSched]_vars

\* The scheduler's thread under fair scheduling: time passes, a timer that is
\* due again and again while the scheduler is free is run, a task that has
\* started goes on to its end and the transport sends what it is given. How
\* often the data sources' tasks run is left open.
SpecLive ==
    /\ InitTopic
    /\ [][NextSched]_vars
    /\ WF_vars(Tick)
    /\ WF_vars(SendTopic)
    /\ SF_vars(\E c \in DOMAIN topic : Fire(c))
    /\ WF_vars(TcAcquire("sched") \/ TcBody("sched") \/ TcAdd("sched")
                 \/ TcDone("sched") \/ ApAcquire("sched") \/ ApIssue("sched"))
    /\ WF_vars(\E c \in DOMAIN topic : TcRemove("sched", c))

\* what the thread of a user's update command does
NextUser ==
    \/ \E who \in Callers : UpdateRejected(who)
    \/ UpdateReturn
    \/ \E who \in Callers : UpdateStart(who)
    \/ \E i \in 1..Len(data_sources) :
          /\ i = tidx["user"]
          /\ \E v \in Values(data_sources[i]) : UpdateSource(v)
    \/ UpdateSourceRaises
    \/ UpdateRecompute
    \/ TcAcquire("user")
    \/ TcBody("user")
    \/ \E c \in DOMAIN topic : TcRemove("user", c)
    \/ TcAdd("user")
    \/ TcAddRaises("user")
    \/ TcDone("user")

NextTopic == NextSched \/ TcAddRaises("sched") \/ NextUser

\* the scheduler's thread and a user's update command, interleaved
SpecTopic == InitTopic /\ [][NextTopic]_vars

-----------------------------------------------------------------------------
(* Claims about the pipeline, checked under SpecPipeline *)

\* the channels the latest call sent to
SentTo == {last.sent[k].channel : k \in 1..Len(last.sent)}

\* the latest call was given a message whose text was in the window
LastWasDuplicate == last.doc.kind = "msg" /\ InWindow(last.doc.txt, last.pre)

\* the latest call was given a message whose text was not in the window
LastWasNew == last.doc.kind = "msg" /\ ~InWindow(last.doc.txt, last.pre)

\* C2: an event whose rendered text is already in the recent-text window is
\* sent to no channel (the call returns NO_ACTION and leaves the window as it
\* was), and the window never holds more than 20 texts.
C2_DuplicateSuppressed ==
    /\ LastWasDuplicate =>
          /\ last.sent = << >>
          /\ last.res = RES_NO_ACTION
          /\ last_n_messages = last.pre
    /\ Len(last_n_messages) <= WindowCap

\* C2's case: a duplicate arrives when the window is full and has already
\* dropped its oldest text
C2_Witness ==
    /\ LastWasDuplicate
    /\ Len(last_n_messages) = WindowCap
    /\ ~InWindow(1, last_n_messages)

\* C3: a channel with neither a package regex nor a maintainer regex is never
\* sent an event, whether as NOTICE or as PRIVMSG.
C3_NoRegexNeverRouted ==
    \A c \in SentTo :
        registry[c].package_regex.set \/ registry[c].maintainer_regex.set

\* C3's case: an event is sent to some channel while a channel that has no
\* package and no maintainer regex, and whose distribution filter would let
\* the event through, is joined
C3_Witness ==
    /\ LastWasNew
    /\ last.res = RES_ACTION
    /\ last.sent # << >>
    /\ \E i \in 1..Len(channels) :
          /\ ~registry[channels[i]].package_regex.set
          /\ ~registry[channels[i]].maintainer_regex.set
          /\ DistributionPass(registry[channels[i]].distribution_regex,
                              MsgOf(last.doc.txt))
          /\ channels[i] \notin SentTo

\* the channel, taken alone, is evaluated without an exception and matches
ChannelMatches(c, msg) ==
    LET info == MaintainerInfo(msg)
        m == MaintainerMatch(registry[c].maintainer_regex, info)
    IN  /\ m # "raise"
        /\ PackageMatch(registry[c].package_regex, msg.package) \/ m = "match"
        /\ DistributionPass(registry[c].distribution_regex, msg)

\* C10: an event that is not a duplicate reaches every joined channel that
\* matches it, whatever happens while another channel is evaluated.
C10_RoutingIndependent ==
    LastWasNew =>
        \A i \in 1..Len(channels) :
            ChannelMatches(channels[i], MsgOf(last.doc.txt))
                => channels[i] \in SentTo

\* the positions in the latest call's sends that went to channel c
SendsTo(c) == {k \in 1..Len(last.sent) : last.sent[k].channel = c}

\* C11: for a new event, a joined channel gets exactly one send of the
\* rendered text if a package or a maintainer matches and the distribution
\* filter passes, and none otherwise; the send is a NOTICE unless the channel
\* is set to send PRIVMSG.
C11_RoutingDecision ==
    LastWasNew =>
        \A i \in 1..Len(channels) :
            LET c == channels[i]
            IN  IF ChannelMatches(c, MsgOf(last.doc.txt))
                THEN /\ Cardinality(SendsTo(c)) = 1
                     /\ \A k \in SendsTo(c) :
                           /\ last.sent[k].text = last.doc.txt
                           /\ last.sent[k].command =
                                 IF registry[c].send_privmsg
                                 THEN "PRIVMSG" ELSE "NOTICE"
                ELSE SendsTo(c) = {}

\* C12: a channel with a distribution regex is sent no event that has no
\* distribution or whose distribution the regex does not match, whatever its
\* packages and maintainers match.
C12_DistributionHardFilter ==
    \A k \in 1..Len(last.sent) :
        LET rx == registry[last.sent[k].channel].distribution_regex
            msg == MsgOf(last.doc.txt)
        IN  rx.set => /\ msg.distribution # NoAttr
                      /\ Search(rx, msg.distribution)

\* C12's case: a new event whose package matches a channel's package regex
\* and whose distribution does not match the channel's distribution regex has
\* been routed, to another channel only
C12_Witness ==
    /\ LastWasNew
    /\ last.res = RES_ACTION
    /\ last.sent # << >>
    /\ \E i \in 1..Len(channels) :
          LET cfg == registry[channels[i]]
              msg == MsgOf(last.doc.txt)
          IN  /\ cfg.distribution_regex.set
              /\ PackageMatch(cfg.package_regex, msg.package)
              /\ msg.distribution # NoAttr
              /\ ~Search(cfg.distribution_regex, msg.distribution)
              /\ channels[i] \notin SentTo

-----------------------------------------------------------------------------
(* Claims about the drain, checked under SpecDrain *)

\* the pass of invocation t is over: its listing is exhausted, or an
\* exception has left the loop
PassOver(t) ==
    \/ dpc[t] = "loop" /\ listing[t] = << >>
    \/ dpc[t] = "raised"

\* C1: every regular file listed by a drain pass has been deleted or moved to
\* the processed or the failed archive when the pass ends.
C1_EveryListedFileRelocated ==
    \A t \in Threads :
        PassOver(t) =>
            \A f \in DOMAIN fate[t] :
                fate[t][f] \in {"deleted", "processed", "failed"}

\* C7: no invocation of _email_callback waits on the mail lock and then runs
\* a pass of its own.
C7_NeverWaitsThenRuns ==
    [][\A t \in Threads : ~(dpc[t] = "blocked" /\ dpc'[t] = "loop")]_vars

\* C8: at most one pass is in its file loop at a time, and no inbox file is
\* handed to _process_mail more than once.
C8_ExactlyOnce ==
    /\ Cardinality({t \in Threads : dpc[t] = "loop"}) <= 1
    /\ \A n \in DOMAIN inbox : inbox[n].handed <= 1

\* C9: no exception raised while one inbox file is handled leaves the drain
\* loop.
C9_FailureStaysInLoop == \A t \in Threads : dpc[t] # "raised"

\* this step is invocation t's handling of the regular file at the head of
\* its listing (lines 176-194)
Handles(t) ==
    /\ dpc[t] = "loop"
    /\ listing[t] # << >>
    /\ IsFile(Head(listing[t]))
    /\ listing'[t] # listing[t]

\* C13: the file a pass handles is moved to the processed archive exactly
\* when _process_mail returns ACTION, deleted exactly when it returns
\* NO_ACTION, and moved to the failed archive exactly when it returns ERROR;
\* a document the parsers raise on is never deleted.
C13_OutcomeMapping ==
    [][\A t \in Threads :
          Handles(t) =>
             LET mail == Head(listing[t])
                 res == ProcessMail(inbox[mail].doc, last_n_messages).res
                 gone == mail \notin DOMAIN inbox'
                 to_processed == gone /\ processed_maildir' # processed_maildir
                 to_failed == gone /\ failed_maildir' # failed_maildir
                 deleted == gone /\ ~to_processed /\ ~to_failed
             IN  /\ to_processed <=> res = RES_ACTION
                 /\ deleted <=> res = RES_NO_ACTION
                 /\ to_failed <=> res = RES_ERROR
                 /\ inbox[mail].doc.kind = "bad" => ~deleted]_vars

-----------------------------------------------------------------------------
(* Claims about the topic aggregator *)

C5_SinglePendingTimer ==
    \A t \in TopicThreads : tpc[t] = "tc_add" => tcur[t] \notin DOMAIN events

\* the scheduler's recompute has come to its end, and nothing but the clock
\* has changed since its previous recompute ended
SecondRecomputeEnds ==
    tpc["sched"] = "tc_next" /\ ttodo["sched"] = {} /\ prev.ok /\ prev.fresh

C14_WrapperAlwaysRecomputes ==
    /\ task.outcome # "none" <=>
          tpc["sched"] \in {"tc_lock", "tc_body", "tc_next", "tc_add"}
    /\ tpc["sched"] \in {"tc_lock", "tc_body"} => task.recomputes = 0
    /\ tpc["sched"] \in {"tc_next", "tc_add"} => task.recomputes = 1

\* C14's case: the task's update() raised and its recompute has run
C14_Witness ==
    /\ task.outcome = "raised"
    /\ task.recomputes = 1
    /\ tpc["sched"] = "tc_next"
    /\ ttodo["sched"] = {}

\* C15 (under SpecTopic): the update command of a caller without the owner
\* capability is rejected and changes nothing: the steps that serve it run no
\* update() and no recompute, and leave the data sources' values, the
\* pending-topic map, the scheduled timers, the topics, the topic lock and the
\* queued TOPIC messages as they were.
C15_UnauthorisedUpdateChangesNothing ==
    [][(caller' # caller /\ "guest" \in {caller, caller'}) =>
          /\ tpc["user"] \in {"idle", "rejected"}
          /\ tpc'["user"] \in {"idle", "rejected"}
          /\ tpc'["sched"] = tpc["sched"]
          /\ UNCHANGED << srcval, topic, queued_topics, events, topic_lock,
                          tcur, ttodo, tidx, irc_queue >>]_vars

\* C15's case: a caller without the capability has been rejected while a
\* pending topic and its timer exist
C15_Witness ==
    /\ caller = "guest"
    /\ tpc["user"] = "rejected"
    /\ queued_topics # EmptyMap
    /\ events # EmptyMap

\* this step queues a TOPIC message for channel c (line 324)
IssueStep(c) ==
    /\ Len(irc_queue') > Len(irc_queue)
    /\ irc_queue'[Len(irc_queue')].channel = c

\* C16 (under SpecSched): a TOPIC message the apply step issues for a channel
\* carries the topic the latest recompute derived for it; none is issued for
\* a channel whose topic the latest recompute found in no need of a change.
C16_AppliedTopicIsCurrent ==
    [][\A c \in DOMAIN topic :
          IssueStep(c) =>
             /\ rec[c].needs
             /\ irc_queue'[Len(irc_queue')].topic = rec[c].topic]_vars

\* thread t has recorded a pending topic for channel c and has yet to
\* register its timer (lines 302-317)
Scheduling(t, c) ==
    \/ tpc[t] = "tc_next" /\ c \in ttodo[t]
    \/ tpc[t] = "tc_add" /\ (c = tcur[t] \/ c \in ttodo[t])

\* thread t runs the apply step for channel c, whose timer has fired
Applying(t, c) == tpc[t] \in {"ap_lock", "ap_body"} /\ tcur[t] = c

\* C17 (under SpecSched): a channel has a pending-topic entry only while its
\* timer is scheduled, is being scheduled or has just fired and is being
\* applied; once the apply step has run the channel has no entry left.
C17_PendingOnlyWhileTimer ==
    \A c \in DOMAIN queued_topics :
        \/ c \in DOMAIN events
        \/ \E t \in TopicThreads : Scheduling(t, c) \/ Applying(t, c)

\* thread t is inside the with self.topic_lock block of _topic_callback or
\* of _update_topic
InCritical(t) == tpc[t] \in {"tc_body", "ap_body"}

\* C18 (under SpecTopic): at most one thread is inside the blocks guarded by
\* the topic lock, a thread inside holds the lock, and every step that reads
\* or writes the pending-topic map is taken by the thread that holds it.
C18_TopicLockDiscipline ==
    /\ [](/\ Cardinality({t \in TopicThreads : InCritical(t)}) <= 1
          /\ \A t \in TopicThreads : InCritical(t) <=> topic_lock = t)
    /\ [][(queued_topics' # queued_topics
             \/ \E c \in DOMAIN topic : IssueStep(c))
            => \E t \in TopicThreads :
                  /\ InCritical(t)
                  /\ topic_lock = t
                  /\ tpc'[t] # tpc[t]]_vars

\* C18's case: a timer-fired apply is inside the block while the update
\* command's recompute waits for the lock
C18_Witness ==
    /\ tpc["sched"] = "ap_body"
    /\ topic_lock = "sched"
    /\ tpc["user"] = "tc_lock"

\* C19 (under SpecTopic): an authorised update command calls update() on
\* the data sources one after another in their order, and leaves that loop
\* only after the last one, for the recompute, whatever the calls did.
C19_AuthorisedUpdateRunsAll ==
    [][tpc["user"] = "update" =>
          /\ tpc'["user"] = "update" =>
                tidx'["user"] \in {tidx["user"], tidx["user"] + 1}
          /\ tpc'["user"] # "update" =>
                /\ tidx["user"] > Len(data_sources)
                /\ tpc'["user"] = "tc_lock"]_vars

\* the values the data sources may hold, all of them
SourceValuations ==
    [{data_sources[i] : i \in 1..Len(data_sources)} -> 0..MaxValue]

\* C20 (under SpecLive): once a recompute has recorded a changed topic for a
\* channel, a TOPIC message for the channel is issued unless the data
\* sources' values change first, however the data sources' tasks keep running.
C20_PendingEventuallyApplied ==
    \A c \in DOMAIN StartTopics, v \in SourceValuations :
        (rec[c].set /\ rec[c].issued = 0 /\ srcval = v)
            ~> (rec[c].issued > 0 \/ srcval # v)

=============================================================================
